---- MODULE Spec2Model ----
(***************************************************************************)
(* TextMetric Pro: the text-analysis core (services/analyzer.ts and        *)
(* services/localSentiment.ts) and the App component that drives it.       *)
(*                                                                         *)
(* A JavaScript string is modelled as a sequence of one-character strings  *)
(* (UTF-16 code units), so that length, regular-expression matching,       *)
(* splitting, trimming, lower-casing and joining are computed character by *)
(* character, the way the engine computes them.                            *)
(***************************************************************************)
EXTENDS Integers, Sequences, FiniteSets, TLC

VARIABLES
  text,             \* the input string handed to the functions
  stats,            \* TextStats returned by analyzeText(text), or Null
  csvContent,       \* the string returned by generateCSV(stats), as
                    \* [type |-> "string", value |-> it], or Null
  sentimentCall,    \* position of the call analyzeSentimentLocal(text):
                    \* "none", "suspended" (awaiting the timer), "resolved"
  sentimentResult,  \* SentimentResult the call resolved with, or Null
  sentimentStatus,  \* App: the AnalysisStatus shown by SentimentCard
  pendingCalls,     \* App: the texts of the calls of analyzeSentimentLocal
                    \* that await their timer, oldest first
  pendingCopies,    \* App: number of runs of handleCopy suspended at
                    \* await navigator.clipboard.writeText(text)
  copySuccess       \* App: the copySuccess flag

\* the state of App that the bare functions leave alone
appVars == <<sentimentStatus, pendingCalls, pendingCopies, copySuccess>>

vars ==
  <<text, stats, csvContent, sentimentCall, sentimentResult,
    sentimentStatus, pendingCalls, pendingCopies, copySuccess>>

Null == [type |-> "null"]

(***************************************************************************)
(* Bounds of the checked inputs.                                           *)
(***************************************************************************)
\* an input text is the concatenation of at most MaxChunks chunks
MaxChunks == 4

\* a text typed into App is the concatenation of at most MaxAppChunks chunks
MaxAppChunks == 1

\* App starts a call only while fewer than MaxCalls calls are pending
MaxCalls == 2

\* App starts a clipboard write only while fewer than MaxCopies are pending
MaxCopies == 1

(***************************************************************************)
(* Characters and character classes of the regular expressions.            *)
(***************************************************************************)
UpperCase ==
  <<"A", "B", "C", "D", "E", "F", "G", "H", "I", "J", "K", "L", "M",
    "N", "O", "P", "Q", "R", "S", "T", "U", "V", "W", "X", "Y", "Z">>

LowerCase ==
  <<"a", "b", "c", "d", "e", "f", "g", "h", "i", "j", "k", "l", "m",
    "n", "o", "p", "q", "r", "s", "t", "u", "v", "w", "x", "y", "z">>

Range(f) == {f[i] : i \in DOMAIN f}

Max(S) == CHOOSE x \in S : \A y \in S : y <= x

\* \w : ASCII letters, digits and underscore
WordChars ==
  Range(UpperCase) \cup Range(LowerCase)
    \cup {"0", "1", "2", "3", "4", "5", "6", "7", "8", "9"} \cup {"_"}

\* [\w-]
WordOrHyphenChars == WordChars \cup {"-"}

\* \s, and the characters String.prototype.trim removes
WhiteSpace == {" ", "\t", "\n", "\r", "\f"}

\* [.!?]
SentencePunctuation == {".", "!", "?"}

\* String.prototype.toLowerCase, on one code unit
LowerChar(c) ==
  IF \E i \in DOMAIN UpperCase : UpperCase[i] = c
    THEN LowerCase[CHOOSE i \in DOMAIN UpperCase : UpperCase[i] = c]
    ELSE c

toLowerCase(s) == [i \in 1..Len(s) |-> LowerChar(s[i])]

\* String.prototype.trim
RECURSIVE trimStart(_)
trimStart(s) ==
  IF s # <<>> /\ Head(s) \in WhiteSpace THEN trimStart(Tail(s)) ELSE s

RECURSIVE trimEnd(_)
trimEnd(s) ==
  IF s # <<>> /\ s[Len(s)] \in WhiteSpace
    THEN trimEnd(SubSeq(s, 1, Len(s) - 1))
    ELSE s

\* trim left out of the filter
trimNothing(s) == s

trim(s) == trimEnd(trimStart(s))

\* RemoveWhiteSpace for the pattern / /g, which removes blanks only
RemoveBlanks(s) == SelectSeq(s, LAMBDA c : c # " ")

\* text.replace(/\s/g, '')
RemoveWhiteSpace(s) == SelectSeq(s, LAMBDA c : c \notin WhiteSpace)

(***************************************************************************)
(* Regular-expression matching.  An offset i in 0..Len(s) is the position  *)
(* between s[i] and s[i+1].  A matcher returns the offset where the match  *)
(* that starts at offset i ends, or -1 when the pattern does not match     *)
(* there.                                                                  *)
(***************************************************************************)
\* \b at offset i
IsWordBoundary(s, i) ==
  LET before == i >= 1 /\ s[i] \in WordChars
      after  == i < Len(s) /\ s[i + 1] \in WordChars
  IN  before # after

\* the largest offset e >= i such that s[i+1..e] lies in class
RECURSIVE RunEnd(_, _, _)
RunEnd(s, i, class) ==
  IF i < Len(s) /\ s[i + 1] \in class THEN RunEnd(s, i + 1, class) ELSE i

\* WordMatchEnd for the pattern /\b\w+\b/, which leaves the hyphen out
WordMatchEndWithoutHyphen(s, i) ==
  IF ~IsWordBoundary(s, i) THEN -1
  ELSE LET e    == RunEnd(s, i, WordChars)
           ends == {j \in (i + 1)..e : IsWordBoundary(s, j)}
       IN  IF ends = {} THEN -1 ELSE Max(ends)

\* /\b[\w-]+\b/ at offset i: greedy, backtracking to the last offset of the
\* run where \b holds
WordMatchEnd(s, i) ==
  IF ~IsWordBoundary(s, i) THEN -1
  ELSE LET e    == RunEnd(s, i, WordOrHyphenChars)
           ends == {j \in (i + 1)..e : IsWordBoundary(s, j)}
       IN  IF ends = {} THEN -1 ELSE Max(ends)

\* /\n+/ at offset q
NewlinesMatchEnd(s, q) ==
  LET e == RunEnd(s, q, {"\n"}) IN IF e > q THEN e ELSE -1

\* SentenceEndMatchEnd for the pattern /[.!?]+/, which ends a sentence at
\* every punctuation run
SentenceEndMatchEndAnywhere(s, q) ==
  LET e == RunEnd(s, q, SentencePunctuation)
  IN  IF e = q THEN -1 ELSE e

\* /[.!?]+(?:\s|$)/ at offset q: the punctuation run is taken greedily and
\* given back one character at a time until \s or the end of input follows
SentenceEndMatchEnd(s, q) ==
  LET e    == RunEnd(s, q, SentencePunctuation)
      ends == {IF j < Len(s) /\ s[j + 1] \in WhiteSpace THEN j + 1 ELSE j :
                 j \in {k \in (q + 1)..e :
                          k = Len(s) \/ s[k + 1] \in WhiteSpace}}
  IN  IF ends = {} THEN -1 ELSE Max(ends)

\* the patterns of the program, named by their source text
WordPattern          == "\\b[\\w-]+\\b"
NewlinesPattern      == "\\n+"
SentenceEndPattern   == "[.!?]+(?:\\s|$)"
SentimentWordPattern == "\\b\\w+\\b"

\* /\b\w+\b/ at offset i
SentimentWordMatchEnd(s, i) ==
  IF ~IsWordBoundary(s, i) THEN -1
  ELSE LET e    == RunEnd(s, i, WordChars)
           ends == {j \in (i + 1)..e : IsWordBoundary(s, j)}
       IN  IF ends = {} THEN -1 ELSE Max(ends)

\* one attempt of the matcher of pattern at offset i
MatchEnd(pattern, s, i) ==
  CASE pattern = WordPattern          -> WordMatchEnd(s, i)
    [] pattern = NewlinesPattern      -> NewlinesMatchEnd(s, i)
    [] pattern = SentenceEndPattern   -> SentenceEndMatchEnd(s, i)
    [] pattern = SentimentWordPattern -> SentimentWordMatchEnd(s, i)

\* String.prototype.match with a global pattern, scanning from offset i
RECURSIVE MatchAllFrom(_, _, _)
MatchAllFrom(pattern, s, i) ==
  IF i >= Len(s) THEN <<>>
  ELSE LET e == MatchEnd(pattern, s, i)
       IN  IF e = -1 THEN MatchAllFrom(pattern, s, i + 1)
           ELSE <<SubSeq(s, i + 1, e)>> \o MatchAllFrom(pattern, s, e)

\* String.prototype.split with a pattern: p is the offset where the
\* current segment starts, q the offset where the separator is tried
RECURSIVE SplitFrom(_, _, _, _)
SplitFrom(pattern, s, p, q) ==
  IF q >= Len(s) THEN <<SubSeq(s, p + 1, Len(s))>>
  ELSE LET e == MatchEnd(pattern, s, q)
       IN  IF e = -1 \/ e = p THEN SplitFrom(pattern, s, p, q + 1)
           ELSE <<SubSeq(s, p + 1, q)>> \o SplitFrom(pattern, s, e, e)

split(pattern, s) ==
  IF s = <<>>
    THEN (IF MatchEnd(pattern, s, 0) = -1 THEN << <<>> >> ELSE <<>>)
    ELSE SplitFrom(pattern, s, 0, 0)

(***************************************************************************)
(* analyzeText (services/analyzer.ts).                                     *)
(***************************************************************************)
\* the sentinel 'N/A'
NA == <<"N", "/", "A">>

\* JavaScript values held by, or read from, frequencyMap
Number(n)      == [type |-> "number", value |-> n]
Undefined      == [type |-> "undefined"]
StringValue    == [type |-> "string"]
FunctionObject == [type |-> "function"]
PlainObject    == [type |-> "object"]

\* const frequencyMap = {}: an object literal has no own property and
\* inherits from Object.prototype; of the inherited property names only
\* these two are all lower-case word characters, hence equal to a `lower`
ObjectPrototype ==
  [key \in { <<"c", "o", "n", "s", "t", "r", "u", "c", "t", "o", "r">>,
             <<"_", "_", "p", "r", "o", "t", "o", "_", "_">> } |->
     IF key[1] = "c" THEN FunctionObject ELSE PlainObject]

EmptyObject == [key \in {} |-> Undefined]

\* frequencyMap[lower], read: own property, else inherited, else undefined
GetProperty(frequencyMap, lower) ==
  IF lower \in DOMAIN frequencyMap THEN frequencyMap[lower]
  ELSE IF lower \in DOMAIN ObjectPrototype THEN ObjectPrototype[lower]
  ELSE Undefined

\* frequencyMap[lower] = v: creates or updates the own property, except
\* that __proto__ is an accessor whose setter ignores a non-object value
SetProperty(frequencyMap, lower, v) ==
  IF lower \in DOMAIN ObjectPrototype /\ ObjectPrototype[lower] = PlainObject
    THEN frequencyMap
    ELSE [key \in DOMAIN frequencyMap \cup {lower} |->
            IF key = lower THEN v ELSE frequencyMap[key]]

\* (x || 0) + 1: undefined and 0 are falsy; a number is incremented, and
\* any other operand makes + a string concatenation
OrZeroPlusOne(x) ==
  IF x = Undefined THEN Number(1)
  ELSE IF x.type = "number" THEN Number(x.value + 1)
  ELSE StringValue

\* x > maxFreq: an operand that does not convert to a number is NaN, and
\* every comparison with NaN is false
GreaterThan(x, maxFreq) == x.type = "number" /\ x.value > maxFreq

\* IsLonger with >= : the last of the longest words wins
IsLongerOrEqual(w, longest) == Len(w) >= Len(longest)

\* w.length > longest.length
IsLonger(w, longest) == Len(w) > Len(longest)

\* one iteration of `for (const w of words)`
WordLoopBody(acc, w) ==
  LET lower   == toLowerCase(w)
      longest == IF IsLonger(w, acc.longest) THEN w ELSE acc.longest
      freqMap == SetProperty(acc.frequencyMap, lower,
                             OrZeroPlusOne(GetProperty(acc.frequencyMap, lower)))
      count   == GetProperty(freqMap, lower)
  IN  IF GreaterThan(count, acc.maxFreq)
        THEN [frequencyMap |-> freqMap, maxFreq |-> count.value,
              mostFreqWord |-> lower, longest |-> longest]
        ELSE [frequencyMap |-> freqMap, maxFreq |-> acc.maxFreq,
              mostFreqWord |-> acc.mostFreqWord, longest |-> longest]

RECURSIVE WordLoop(_, _, _)
WordLoop(words, k, acc) ==
  IF k > Len(words) THEN acc
  ELSE WordLoop(words, k + 1, WordLoopBody(acc, words[k]))

\* Paragraphs without the filter
ParagraphsUnfiltered(s) == split(NewlinesPattern, s)

\* text.split(/\n+/).filter(p => p.trim().length > 0)
Paragraphs(s) ==
  SelectSeq(split(NewlinesPattern, s), LAMBDA p : Len(trim(p)) > 0)

\* text.split(/[.!?]+(?:\s|$)/).filter(s => s.trim().length > 0)
Sentences(s) ==
  SelectSeq(split(SentenceEndPattern, s), LAMBDA p : Len(trim(p)) > 0)

\* text.match(/\b[\w-]+\b/g) || []
Words(s) == MatchAllFrom(WordPattern, s, 0)

\* EmptyStats with the word fields left empty instead of 'N/A'
EmptyStatsWithoutSentinel ==
  [wordCount |-> 0, charCount |-> 0, charCountNoSpaces |-> 0,
   sentenceCount |-> 0, paragraphCount |-> 0,
   mostFrequentWord |-> <<>>, mostFrequentWordCount |-> 0,
   longestWord |-> <<>>]

\* the record returned for an empty text
EmptyStats ==
  [wordCount |-> 0, charCount |-> 0, charCountNoSpaces |-> 0,
   sentenceCount |-> 0, paragraphCount |-> 0,
   mostFrequentWord |-> NA, mostFrequentWordCount |-> 0,
   longestWord |-> NA]

analyzeText(s) ==
  IF s = <<>>
    THEN EmptyStats
    ELSE LET words == Words(s)
             acc   == WordLoop(words, 1,
                        [frequencyMap |-> EmptyObject, maxFreq |-> 0,
                         mostFreqWord |-> <<>>, longest |-> <<>>])
         IN  [wordCount |-> Len(words),
              charCount |-> Len(s),
              charCountNoSpaces |-> Len(RemoveWhiteSpace(s)),
              sentenceCount |-> Len(Sentences(s)),
              paragraphCount |-> Len(Paragraphs(s)),
              mostFrequentWord |->
                IF acc.mostFreqWord = <<>> THEN NA ELSE acc.mostFreqWord,
              mostFrequentWordCount |-> acc.maxFreq,
              longestWord |-> IF acc.longest = <<>> THEN NA ELSE acc.longest]

(***************************************************************************)
(* generateCSV (services/analyzer.ts).                                     *)
(***************************************************************************)
DecimalDigits == <<"0", "1", "2", "3", "4", "5", "6", "7", "8", "9">>

\* Number.prototype.toString of a non-negative integer
RECURSIVE NumberToString(_)
NumberToString(n) ==
  IF n < 10 THEN <<DecimalDigits[n + 1]>>
  ELSE NumberToString(n \div 10) \o <<DecimalDigits[(n % 10) + 1]>>

\* Array.prototype.join
RECURSIVE join(_, _)
join(cells, separator) ==
  IF cells = <<>> THEN <<>>
  ELSE IF Len(cells) = 1 THEN cells[1]
  ELSE cells[1] \o separator \o join(Tail(cells), separator)

CsvHeaders == << <<"M", "e", "t", "r", "i", "c">>, <<"V", "a", "l", "u", "e">> >>

\* MostFrequentCell with the count set off by a comma
MostFrequentCellWithComma(st) ==
  st.mostFrequentWord \o <<",", " ">>
    \o NumberToString(st.mostFrequentWordCount)

\* `${stats.mostFrequentWord} (${stats.mostFrequentWordCount})`
MostFrequentCell(st) ==
  st.mostFrequentWord \o <<" ", "(">>
    \o NumberToString(st.mostFrequentWordCount) \o <<")">>

CsvLabels ==
  << <<"W", "o", "r", "d", " ", "C", "o", "u", "n", "t">>,
     <<"C", "h", "a", "r", "a", "c", "t", "e", "r", " ", "C", "o", "u", "n",
       "t", " ", "(", "T", "o", "t", "a", "l", ")">>,
     <<"C", "h", "a", "r", "a", "c", "t", "e", "r", " ", "C", "o", "u", "n",
       "t", " ", "(", "N", "o", " ", "S", "p", "a", "c", "e", "s", ")">>,
     <<"S", "e", "n", "t", "e", "n", "c", "e", " ", "C", "o", "u", "n", "t">>,
     <<"P", "a", "r", "a", "g", "r", "a", "p", "h", " ", "C", "o", "u", "n",
       "t">>,
     <<"M", "o", "s", "t", " ", "F", "r", "e", "q", "u", "e", "n", "t", " ",
       "W", "o", "r", "d">>,
     <<"L", "o", "n", "g", "e", "s", "t", " ", "W", "o", "r", "d">> >>

CsvRows(st) ==
  << <<CsvLabels[1], NumberToString(st.wordCount)>>,
     <<CsvLabels[2], NumberToString(st.charCount)>>,
     <<CsvLabels[3], NumberToString(st.charCountNoSpaces)>>,
     <<CsvLabels[4], NumberToString(st.sentenceCount)>>,
     <<CsvLabels[5], NumberToString(st.paragraphCount)>>,
     <<CsvLabels[6], MostFrequentCell(st)>>,
     <<CsvLabels[7], st.longestWord>> >>

generateCSV(st) ==
  LET rows == CsvRows(st)
  IN  join(<<join(CsvHeaders, <<",">>)>>
             \o [r \in 1..Len(rows) |-> join(rows[r], <<",">>)],
           <<"\n">>)

(***************************************************************************)
(* analyzeSentimentLocal (services/localSentiment.ts, which follows        *)
(* generateCSV in src/services/analyzer.ts).                               *)
(***************************************************************************)
POSITIVE_WORDS ==
  { <<"g", "o", "o", "d">>,
    <<"g", "r", "e", "a", "t">>,
    <<"e", "x", "c", "e", "l", "l", "e", "n", "t">>,
    <<"a", "m", "a", "z", "i", "n", "g">>,
    <<"w", "o", "n", "d", "e", "r", "f", "u", "l">>,
    <<"b", "e", "s", "t">>,
    <<"l", "o", "v", "e">>,
    <<"l", "i", "k", "e">>,
    <<"h", "a", "p", "p", "y">>,
    <<"j", "o", "y">>,
    <<"s", "u", "c", "c", "e", "s", "s">>,
    <<"w", "i", "n">>,
    <<"f", "a", "s", "t">>,
    <<"e", "f", "f", "i", "c", "i", "e", "n", "t">>,
    <<"e", "a", "s", "y">>,
    <<"c", "l", "e", "a", "n">>,
    <<"p", "o", "p", "u", "l", "a", "r">>,
    <<"v", "a", "l", "u", "a", "b", "l", "e">>,
    <<"p", "o", "w", "e", "r", "f", "u", "l">>,
    <<"s", "m", "o", "o", "t", "h">>,
    <<"s", "m", "a", "r", "t">>,
    <<"c", "o", "o", "l">>,
    <<"b", "e", "n", "e", "f", "i", "t">>,
    <<"i", "m", "p", "r", "o", "v", "e">>,
    <<"e", "a", "s", "y">>,
    <<"b", "e", "a", "u", "t", "i", "f", "u", "l">>,
    <<"p", "e", "r", "f", "e", "c", "t">>,
    <<"n", "i", "c", "e">>,
    <<"a", "w", "e", "s", "o", "m", "e">>,
    <<"i", "n", "n", "o", "v", "a", "t", "i", "v", "e">>,
    <<"s", "e", "c", "u", "r", "e">>,
    <<"s", "t", "a", "b", "l", "e">>,
    <<"f", "u", "n">> }

NEGATIVE_WORDS ==
  { <<"b", "a", "d">>,
    <<"t", "e", "r", "r", "i", "b", "l", "e">>,
    <<"a", "w", "f", "u", "l">>,
    <<"w", "o", "r", "s", "t">>,
    <<"h", "a", "t", "e">>,
    <<"d", "i", "s", "l", "i", "k", "e">>,
    <<"s", "a", "d">>,
    <<"a", "n", "g", "r", "y">>,
    <<"f", "a", "i", "l">>,
    <<"l", "o", "s", "e">>,
    <<"s", "l", "o", "w">>,
    <<"p", "o", "o", "r">>,
    <<"e", "r", "r", "o", "r">>,
    <<"b", "u", "g">>,
    <<"d", "i", "f", "f", "i", "c", "u", "l", "t">>,
    <<"h", "a", "r", "d">>,
    <<"u", "g", "l", "y">>,
    <<"w", "r", "o", "n", "g">>,
    <<"b", "r", "o", "k", "e", "n">>,
    <<"r", "i", "s", "k">>,
    <<"d", "a", "n", "g", "e", "r">>,
    <<"t", "h", "r", "e", "a", "t">>,
    <<"a", "n", "n", "o", "y">>,
    <<"b", "o", "r", "i", "n", "g">>,
    <<"c", "o", "n", "f", "u", "s", "i", "n", "g">>,
    <<"w", "e", "a", "k">>,
    <<"p", "a", "i", "n">>,
    <<"t", "r", "o", "u", "b", "l", "e">>,
    <<"u", "s", "e", "l", "e", "s", "s">>,
    <<"d", "i", "r", "t", "y">>,
    <<"f", "a", "k", "e">>,
    <<"s", "t", "u", "p", "i", "d">> }

\* SentimentWords without toLowerCase
SentimentWordsCaseSensitive(s) == MatchAllFrom(SentimentWordPattern, s, 0)

\* text.toLowerCase().match(/\b\w+\b/g) || []
SentimentWords(s) == MatchAllFrom(SentimentWordPattern, toLowerCase(s), 0)

\* the callback of words.forEach
CountWord(acc, word) ==
  IF word \in POSITIVE_WORDS
    THEN [score |-> acc.score + 1, posCount |-> acc.posCount + 1,
          negCount |-> acc.negCount]
  ELSE IF word \in NEGATIVE_WORDS
    THEN [score |-> acc.score - 1, posCount |-> acc.posCount,
          negCount |-> acc.negCount + 1]
  ELSE acc

RECURSIVE ForEachWord(_, _, _)
ForEachWord(words, k, acc) ==
  IF k > Len(words) THEN acc
  ELSE ForEachWord(words, k + 1, CountWord(acc, words[k]))

SentimentLabel(score) ==
  IF score > 0 THEN "Positive"
  ELSE IF score < 0 THEN "Negative"
  ELSE "Neutral"

Abs(n) == IF n < 0 THEN -n ELSE n

\* A real number is the fraction num / den, den > 0.
Fraction(n, d) == [num |-> n, den |-> d]

LessOrEqual(x, y) == x.num * y.den <= y.num * x.den

\* Math.min
MathMin(x, y) == IF LessOrEqual(x, y) THEN x ELSE y

\* Confidence without Math.min
ConfidenceWithoutCap(score, totalEmotionalWords) ==
  IF totalEmotionalWords = 0 THEN Fraction(1, 2)
  ELSE Fraction(totalEmotionalWords + Abs(score), 2 * totalEmotionalWords)

\* totalEmotionalWords === 0 ? 0.5
\*   : Math.min(0.5 + (Math.abs(score) / totalEmotionalWords) * 0.5, 0.99)
Confidence(score, totalEmotionalWords) ==
  IF totalEmotionalWords = 0 THEN Fraction(1, 2)
  ELSE MathMin(Fraction(totalEmotionalWords + Abs(score),
                        2 * totalEmotionalWords),
               Fraction(99, 100))

\* `Found ${posCount} positive words and ${negCount} negative words.`
Explanation(posCount, negCount) ==
  <<"F", "o", "u", "n", "d", " ">> \o NumberToString(posCount)
    \o <<" ", "p", "o", "s", "i", "t", "i", "v", "e", " ", "w", "o", "r",
         "d", "s", " ", "a", "n", "d", " ">>
    \o NumberToString(negCount)
    \o <<" ", "n", "e", "g", "a", "t", "i", "v", "e", " ", "w", "o", "r",
         "d", "s", ".">>

\* the value the promise of analyzeSentimentLocal(s) resolves with
SentimentOf(s) ==
  LET acc == ForEachWord(SentimentWords(s), 1,
                         [score |-> 0, posCount |-> 0, negCount |-> 0])
  IN  [score |-> SentimentLabel(acc.score),
       confidence |-> Confidence(acc.score, acc.posCount + acc.negCount),
       explanation |-> Explanation(acc.posCount, acc.negCount)]

(***************************************************************************)
(* Inputs of the metrics engine: every concatenation of at most MaxChunks  *)
(* of these chunks.                                                        *)
(***************************************************************************)
StatsChunks ==
  { <<"a", " ">>, <<"A">>, <<"1", " ">>, <<"_">>, <<"-">>, <<"\n">>,
    <<" ", "\t">>, <<".">>, <<"!", "?">>,
    <<"c", "o", "n", "s", "t", "r", "u", "c", "t", "o", "r">> }

RECURSIVE Flatten(_)
Flatten(chunks) ==
  IF chunks = <<>> THEN <<>> ELSE Head(chunks) \o Flatten(Tail(chunks))

ConcatenationsUpTo(chunks, max) ==
  {Flatten(cs) : cs \in UNION {[1..n -> chunks] : n \in 0..max}}

Concatenations(chunks) == ConcatenationsUpTo(chunks, MaxChunks)

StatsInputs == Concatenations(StatsChunks)

InitStats ==
  /\ text \in StatsInputs
  /\ stats = Null
  /\ csvContent = Null
  /\ sentimentCall = "none"
  /\ sentimentResult = Null
  /\ sentimentStatus = "IDLE"
  /\ pendingCalls = <<>>
  /\ pendingCopies = 0
  /\ copySuccess = FALSE

\* const stats = analyzeText(text)
AnalyzeText ==
  /\ stats = Null
  /\ stats' = analyzeText(text)
  /\ UNCHANGED <<text, csvContent, sentimentCall, sentimentResult, appVars>>

\* const csvContent = generateCSV(stats)
GenerateCSV ==
  /\ stats # Null
  /\ csvContent = Null
  /\ csvContent' = [type |-> "string", value |-> generateCSV(stats)]
  /\ UNCHANGED <<text, stats, sentimentCall, sentimentResult, appVars>>

NextStats == AnalyzeText \/ GenerateCSV

SpecStats == InitStats /\ [][NextStats]_vars

(***************************************************************************)
(* Inputs of the sentiment classifier: every concatenation of at most      *)
(* MaxChunks of these chunks.                                              *)
(***************************************************************************)
SentimentChunks ==
  { <<"f", "u", "n", " ">>, <<"B", "A", "D", "-">>, <<"W", "i", "n">>,
    <<"s">>, <<"_">>, <<".">> }

SentimentInputs == Concatenations(SentimentChunks)

InitSentiment ==
  /\ text \in SentimentInputs
  /\ stats = Null
  /\ csvContent = Null
  /\ sentimentCall = "none"
  /\ sentimentResult = Null
  /\ sentimentStatus = "IDLE"
  /\ pendingCalls = <<>>
  /\ pendingCopies = 0
  /\ copySuccess = FALSE

\* analyzeSentimentLocal(text) is called and suspends at
\* await new Promise(resolve => setTimeout(resolve, 800))
CallAnalyzeSentimentLocal ==
  /\ sentimentCall = "none"
  /\ sentimentCall' = "suspended"
  /\ UNCHANGED <<text, stats, csvContent, sentimentResult, appVars>>

\* the timer fires: the call resumes, classifies the text it was called
\* with and resolves its promise
ResumeAnalyzeSentimentLocal ==
  /\ sentimentCall = "suspended"
  /\ sentimentCall' = "resolved"
  /\ sentimentResult' = SentimentOf(text)
  /\ UNCHANGED <<text, stats, csvContent, appVars>>

NextSentiment == CallAnalyzeSentimentLocal \/ ResumeAnalyzeSentimentLocal

SpecSentiment == InitSentiment /\ [][NextSentiment]_vars

(***************************************************************************)
(* App (App.tsx): the component state, its event handlers and the          *)
(* callbacks that run when a promise settles or a timer fires.  Each       *)
(* action is one run-to-completion task of the event loop.                 *)
(***************************************************************************)
\* the values a user types or pastes into the textarea: texts of positive
\* keywords, a text with a negative keyword, and a text of white space only
AppChunks == { <<"f", "u", "n", " ">> }

AppTexts ==
  ConcatenationsUpTo(AppChunks, MaxAppChunks)
    \cup { <<"B", "A", "D", "-">>, <<" ">> }

Init ==
  /\ text = <<>>
  /\ stats = analyzeText(<<>>)
  /\ csvContent = Null
  /\ sentimentCall = "none"
  /\ sentimentResult = Null
  /\ sentimentStatus = "IDLE"
  /\ pendingCalls = <<>>
  /\ pendingCopies = 0
  /\ copySuccess = FALSE

\* onChange of the textarea, with e.target.value = value; stats is the
\* useMemo of analyzeText(text)
handleTextChange(value) ==
  /\ value # text
  /\ text' = value
  /\ stats' = analyzeText(value)
  /\ IF sentimentStatus = "COMPLETED" \/ sentimentStatus = "ERROR"
       THEN /\ sentimentStatus' = "IDLE"
            /\ sentimentResult' = Null
       ELSE UNCHANGED <<sentimentStatus, sentimentResult>>
  /\ UNCHANGED <<csvContent, sentimentCall, pendingCalls, pendingCopies,
                 copySuccess>>

\* handleClear without setSentimentStatus(AnalysisStatus.IDLE)
handleClearKeepingStatus(confirmed) ==
  /\ text # <<>>
  /\ IF confirmed
       THEN /\ text' = <<>>
            /\ stats' = analyzeText(<<>>)
            /\ sentimentResult' = Null
       ELSE UNCHANGED <<text, stats, sentimentResult>>
  /\ UNCHANGED <<csvContent, sentimentCall, sentimentStatus, pendingCalls,
                 pendingCopies, copySuccess>>

\* onClick of the Clear button (disabled={!text}); confirmed is the answer
\* to window.confirm
handleClear(confirmed) ==
  /\ text # <<>>
  /\ IF confirmed
       THEN /\ text' = <<>>
            /\ stats' = analyzeText(<<>>)
            /\ sentimentStatus' = "IDLE"
            /\ sentimentResult' = Null
       ELSE UNCHANGED <<text, stats, sentimentStatus, sentimentResult>>
  /\ UNCHANGED <<csvContent, sentimentCall, pendingCalls, pendingCopies,
                 copySuccess>>

\* onClick of the Copy button (disabled={!text}), up to the await
handleCopy ==
  /\ text # <<>>
  /\ pendingCopies < MaxCopies
  /\ pendingCopies' = pendingCopies + 1
  /\ UNCHANGED <<text, stats, csvContent, sentimentCall, sentimentResult,
                 sentimentStatus, pendingCalls, copySuccess>>

\* writeText resolved: setCopySuccess(true) and the 2 s timer is started
ClipboardWritten ==
  /\ pendingCopies > 0
  /\ pendingCopies' = pendingCopies - 1
  /\ copySuccess' = TRUE
  /\ UNCHANGED <<text, stats, csvContent, sentimentCall, sentimentResult,
                 sentimentStatus, pendingCalls>>

\* writeText rejected: the catch branch logs the error
ClipboardRefused ==
  /\ pendingCopies > 0
  /\ pendingCopies' = pendingCopies - 1
  /\ UNCHANGED <<text, stats, csvContent, sentimentCall, sentimentResult,
                 sentimentStatus, pendingCalls, copySuccess>>

\* setTimeout(() => setCopySuccess(false), 2000) fires; a timer that fires
\* while the flag is false changes nothing
CopySuccessExpires ==
  /\ copySuccess
  /\ copySuccess' = FALSE
  /\ UNCHANGED <<text, stats, csvContent, sentimentCall, sentimentResult,
                 sentimentStatus, pendingCalls, pendingCopies>>

\* onClick of the Export button (disabled={!text || stats.wordCount === 0})
handleExport ==
  /\ text # <<>>
  /\ stats.wordCount # 0
  /\ csvContent' = [type |-> "string", value |-> generateCSV(stats)]
  /\ UNCHANGED <<text, stats, sentimentCall, sentimentResult,
                 sentimentStatus, pendingCalls, pendingCopies, copySuccess>>

\* SentimentCard renders the Analyze button in IDLE (disabled={!text.trim()})
\* and the Try Again button in ERROR
AnalyzeButtonShown == sentimentStatus = "IDLE" \/ sentimentStatus = "ERROR"

\* handleSentimentAnalysis up to the await: the call captures text
handleSentimentAnalysis ==
  /\ AnalyzeButtonShown
  /\ trim(text) # <<>>
  /\ Len(pendingCalls) < MaxCalls
  /\ sentimentStatus' = "ANALYZING"
  /\ pendingCalls' = Append(pendingCalls, text)
  /\ UNCHANGED <<text, stats, csvContent, sentimentCall, sentimentResult,
                 pendingCopies, copySuccess>>

\* what analyzeSentimentLocal(text) resolves to, for each text the textarea
\* can hold
SentimentOfText == [value \in AppTexts |-> SentimentOf(value)]

\* ResumeSentimentAnalysis that drops the verdict of a text that is no
\* longer the current one
ResumeUnlessTextChanged ==
  /\ pendingCalls # <<>>
  /\ IF Head(pendingCalls) = text
       THEN /\ sentimentResult' = SentimentOfText[Head(pendingCalls)]
            /\ sentimentStatus' = "COMPLETED"
       ELSE UNCHANGED <<sentimentResult, sentimentStatus>>
  /\ pendingCalls' = Tail(pendingCalls)
  /\ UNCHANGED <<text, stats, csvContent, sentimentCall, pendingCopies,
                 copySuccess>>

\* the timer of the oldest pending call fires and handleSentimentAnalysis
\* resumes after the await.  No statement of analyzeSentimentLocal throws
\* on a string, so the promise never rejects and the catch branch
\* (setSentimentStatus(ERROR)) is never entered.
ResumeSentimentAnalysis ==
  /\ pendingCalls # <<>>
  /\ sentimentResult' = SentimentOfText[Head(pendingCalls)]
  /\ sentimentStatus' = "COMPLETED"
  /\ pendingCalls' = Tail(pendingCalls)
  /\ UNCHANGED <<text, stats, csvContent, sentimentCall, pendingCopies,
                 copySuccess>>

Next ==
  \/ \E value \in AppTexts : handleTextChange(value)
  \/ \E confirmed \in BOOLEAN : handleClear(confirmed)
  \/ handleCopy
  \/ ClipboardWritten
  \/ ClipboardRefused
  \/ CopySuccessExpires
  \/ handleExport
  \/ handleSentimentAnalysis
  \/ ResumeSentimentAnalysis

Spec == Init /\ [][Next]_vars

\* every timer that was started fires
FairSpec == Spec /\ WF_vars(ResumeSentimentAnalysis)

(***************************************************************************)
(* Reference definitions for the properties: the tokens, paragraphs and    *)
(* table cells of a text, stated position by position, independently of    *)
(* the regular-expression engine above.                                    *)
(***************************************************************************)
Min(S) == CHOOSE x \in S : \A y \in S : x <= y

IsWordOrHyphen(c) == c \in WordChars \/ c = "-"

\* i..j is a stretch of word-or-hyphen characters
IsRun(s, i, j) == \A m \in i..j : IsWordOrHyphen(s[m])

\* first positions of the maximal runs of word-or-hyphen characters that
\* contain a word character
TokenRuns(s) ==
  {i \in 1..Len(s) :
     /\ IsWordOrHyphen(s[i])
     /\ i = 1 \/ ~IsWordOrHyphen(s[i - 1])
     /\ \E j \in i..Len(s) : s[j] \in WordChars /\ IsRun(s, i, j)}

\* the token of the run that starts at i: from its first to its last word
\* character
TokenOfRun(s, i) ==
  LET inRun == {j \in i..Len(s) : s[j] \in WordChars /\ IsRun(s, i, j)}
  IN  SubSeq(s, Min(inRun), Max(inRun))

LowerTokenOfRun(s, i) == toLowerCase(TokenOfRun(s, i))

\* number of tokens equal to the token of run i, ignoring case
Occurrences(s, i) ==
  Cardinality({k \in TokenRuns(s) : LowerTokenOfRun(s, k) = LowerTokenOfRun(s, i)})

\* the run at which the running count of the token of run i reaches its
\* final value: its last occurrence
LastOccurrence(s, i) ==
  Max({k \in TokenRuns(s) : LowerTokenOfRun(s, k) = LowerTokenOfRun(s, i)})

\* first positions of the maximal newline-free segments that contain a
\* non-whitespace character
ParagraphStarts(s) ==
  {i \in 1..Len(s) :
     /\ s[i] # "\n"
     /\ i = 1 \/ s[i - 1] = "\n"
     /\ \E j \in i..Len(s) :
          s[j] \notin WhiteSpace /\ \A m \in i..j : s[m] # "\n"}

IsWhiteSpaceOnly(s) == \A i \in 1..Len(s) : s[i] \in WhiteSpace

\* the pieces of s between the occurrences of the character c
RECURSIVE Pieces(_, _)
Pieces(s, c) ==
  IF \A i \in 1..Len(s) : s[i] # c THEN <<s>>
  ELSE LET i == Min({k \in 1..Len(s) : s[k] = c})
       IN  <<SubSeq(s, 1, i - 1)>> \o Pieces(SubSeq(s, i + 1, Len(s)), c)

DigitValue(c) == CHOOSE n \in 0..9 : DecimalDigits[n + 1] = c

\* the number a string of decimal digits denotes, -1 for any other string
RECURSIVE ParseNumber(_)
ParseNumber(d) ==
  IF d = <<>> \/ \E i \in 1..Len(d) : d[i] \notin Range(DecimalDigits) THEN -1
  ELSE IF Len(d) = 1 THEN DigitValue(d[1])
  ELSE 10 * ParseNumber(SubSeq(d, 1, Len(d) - 1)) + DigitValue(d[Len(d)])

(***************************************************************************)
(* Properties of analyzeText and generateCSV, checked under SpecStats.     *)
(***************************************************************************)
\* C1: analyzeText of the empty string returns every count equal to 0 and
\* both word fields equal to the sentinel 'N/A'.
EmptyTextYieldsZeroStats ==
  (stats # Null /\ text = <<>>) =>
    /\ stats.wordCount = 0
    /\ stats.charCount = 0
    /\ stats.charCountNoSpaces = 0
    /\ stats.sentenceCount = 0
    /\ stats.paragraphCount = 0
    /\ stats.mostFrequentWordCount = 0
    /\ stats.mostFrequentWord = <<"N", "/", "A">>
    /\ stats.longestWord = <<"N", "/", "A">>

EmptyTextAnalyzed == stats # Null /\ text = <<>>

\* C2: wordCount is the number of maximal runs of word-or-hyphen characters
\* (ASCII letters, digits, underscore, hyphen) that contain at least one
\* word character; a hyphen between word characters joins them, any other
\* character separates words, and a run of hyphens alone is not a word.
WordCountIsNumberOfTokenRuns ==
  stats # Null => stats.wordCount = Cardinality(TokenRuns(text))

\* a hyphen joins two word characters, and a run of hyphens alone stands
\* elsewhere in the text
HyphenatedTextAnalyzed ==
  /\ stats # Null
  /\ stats.wordCount < Cardinality({i \in 1..Len(text) : text[i] \in WordChars})
  /\ stats.wordCount >= 1
  /\ \E i \in 2..(Len(text) - 1) :
       text[i] = "-" /\ text[i - 1] \in WordChars /\ text[i + 1] \in WordChars
  /\ \E i \in 1..Len(text) :
       /\ text[i] = "-"
       /\ i = 1 \/ ~IsWordOrHyphen(text[i - 1])
       /\ i = Len(text) \/ ~IsWordOrHyphen(text[i + 1])

\* C3: for a text with at least one token, mostFrequentWord is the
\* lower-cased form of a token, mostFrequentWordCount is the number of
\* tokens equal to it ignoring case, no lower-cased token occurs more often,
\* and among the tokens with the maximal count the one whose running count
\* reached the maximum first is reported.
MostFrequentWordIsFirstToReachMaximum ==
  (stats # Null /\ TokenRuns(text) # {}) =>
    \E i \in TokenRuns(text) :
      /\ stats.mostFrequentWord = LowerTokenOfRun(text, i)
      /\ stats.mostFrequentWordCount = Occurrences(text, i)
      /\ \A k \in TokenRuns(text) :
           /\ Occurrences(text, k) <= Occurrences(text, i)
           /\ Occurrences(text, k) = Occurrences(text, i) =>
                LastOccurrence(text, i) <= LastOccurrence(text, k)

\* C4: for a text with at least one token, longestWord is a token of the
\* text in its original casing, no token is longer, and it is the first of
\* the tokens of that length.
LongestWordIsFirstLongestToken ==
  (stats # Null /\ TokenRuns(text) # {}) =>
    \E i \in TokenRuns(text) :
      /\ stats.longestWord = TokenOfRun(text, i)
      /\ \A k \in TokenRuns(text) :
           /\ Len(TokenOfRun(text, k)) <= Len(TokenOfRun(text, i))
           /\ Len(TokenOfRun(text, k)) = Len(TokenOfRun(text, i)) => i <= k

\* two tokens of the maximal length that differ (in casing or content), the
\* first of them reported
LongestWordTieAnalyzed ==
  /\ stats # Null
  /\ \E i, k \in TokenRuns(text) :
       /\ i < k
       /\ Len(TokenOfRun(text, i)) = Len(TokenOfRun(text, k))
       /\ TokenOfRun(text, i) # TokenOfRun(text, k)
       /\ stats.longestWord = TokenOfRun(text, i)

\* C5: mostFrequentWordCount <= wordCount, and the sentinel appears exactly
\* when there is no word: mostFrequentWord = 'N/A' iff
\* mostFrequentWordCount = 0 iff longestWord = 'N/A' iff wordCount = 0.
SentinelExactlyWhenNoWords ==
  stats # Null =>
    /\ stats.mostFrequentWordCount <= stats.wordCount
    /\ (stats.mostFrequentWord = <<"N", "/", "A">>)
         <=> (stats.mostFrequentWordCount = 0)
    /\ (stats.mostFrequentWordCount = 0)
         <=> (stats.longestWord = <<"N", "/", "A">>)
    /\ (stats.longestWord = <<"N", "/", "A">>) <=> (stats.wordCount = 0)

\* C6: paragraphCount is the number of maximal newline-free segments that
\* contain a non-whitespace character.
ParagraphCountIsNumberOfNonBlankSegments ==
  stats # Null => stats.paragraphCount = Cardinality(ParagraphStarts(text))

\* a leading newline and a line made of a blank and a tab, in a text that
\* has a paragraph
BlankLinesAnalyzed ==
  /\ stats # Null
  /\ stats.paragraphCount >= 1
  /\ text[1] = "\n"
  /\ \E i \in 1..(Len(text) - 3) :
       /\ text[i] = "\n"
       /\ text[i + 1] = " "
       /\ text[i + 2] = "\t"
       /\ text[i + 3] = "\n"

\* C7: for a non-empty text of whitespace characters only, wordCount,
\* sentenceCount, paragraphCount and charCountNoSpaces are 0, both word
\* fields are 'N/A', and charCount is the (non-zero) length of the text.
WhiteSpaceOnlyTextYieldsZeroCounts ==
  (stats # Null /\ text # <<>> /\ IsWhiteSpaceOnly(text)) =>
    /\ stats.wordCount = 0
    /\ stats.sentenceCount = 0
    /\ stats.paragraphCount = 0
    /\ stats.charCountNoSpaces = 0
    /\ stats.mostFrequentWord = <<"N", "/", "A">>
    /\ stats.longestWord = <<"N", "/", "A">>
    /\ stats.charCount = Len(text)
    /\ stats.charCount # 0

\* blanks, tabs and newlines only
WhiteSpaceOnlyTextAnalyzed ==
  /\ stats # Null
  /\ IsWhiteSpaceOnly(text)
  /\ \E i, j, k \in 1..Len(text) :
       text[i] = " " /\ text[j] = "\t" /\ text[k] = "\n"

\* C10: for the record analyzeText produced, generateCSV returns 8 rows
\* separated by newlines, each of two fields separated by a comma: the
\* header Metric,Value, then word count, total characters, characters
\* without spaces, sentence count, paragraph count, most frequent word as
\* "<word> (<count>)" and longest word; cutting the output at newlines and
\* commas gives back the seven metric values.
CsvRoundTrip ==
  csvContent # Null =>
    LET rows     == Pieces(csvContent.value, "\n")
        cells(r) == Pieces(rows[r], ",")
        value(r) == cells(r)[2]
        inlined  == value(7)
        blank    == Min({k \in 1..Len(inlined) : inlined[k] = " "})
    IN  /\ Len(rows) = 8
        /\ \A r \in 1..8 : Len(cells(r)) = 2
        /\ cells(1) = << <<"M", "e", "t", "r", "i", "c">>,
                         <<"V", "a", "l", "u", "e">> >>
        /\ \A r \in 2..8 : cells(r)[1] = CsvLabels[r - 1]
        /\ ParseNumber(value(2)) = stats.wordCount
        /\ ParseNumber(value(3)) = stats.charCount
        /\ ParseNumber(value(4)) = stats.charCountNoSpaces
        /\ ParseNumber(value(5)) = stats.sentenceCount
        /\ ParseNumber(value(6)) = stats.paragraphCount
        /\ \E k \in 1..Len(inlined) : inlined[k] = " "
        /\ SubSeq(inlined, 1, blank - 1) = stats.mostFrequentWord
        /\ inlined[blank + 1] = "("
        /\ inlined[Len(inlined)] = ")"
        /\ ParseNumber(SubSeq(inlined, blank + 2, Len(inlined) - 1))
             = stats.mostFrequentWordCount
        /\ value(8) = stats.longestWord

\* a report of a text with a repeated word and another word
CsvOfRepeatedWordGenerated ==
  /\ csvContent # Null
  /\ stats.mostFrequentWordCount >= 2
  /\ stats.wordCount > stats.mostFrequentWordCount

(***************************************************************************)
(* Properties of analyzeSentimentLocal, checked under SpecSentiment.  The  *)
(* tokens of the classifier are the maximal runs of word characters        *)
(* (ASCII letters, digits, underscore): a hyphen separates them.           *)
(***************************************************************************)
SentimentTokenStarts(s) ==
  {i \in 1..Len(s) : s[i] \in WordChars /\ (i = 1 \/ s[i - 1] \notin WordChars)}

SentimentToken(s, i) ==
  SubSeq(s, i, Max({j \in i..Len(s) : \A m \in i..j : s[m] \in WordChars}))

\* number of tokens of s that are, ignoring case, in the keyword set
KeywordCount(s, keywords) ==
  Cardinality({i \in SentimentTokenStarts(s) :
                 toLowerCase(SentimentToken(s, i)) \in keywords})

\* C8: the label is Positive iff more tokens are positive keywords than
\* negative keywords, Negative iff fewer, and Neutral iff the two counts are
\* equal (both 0 included); keywords match whatever their casing.
LabelFollowsKeywordCounts ==
  sentimentResult # Null =>
    LET posCount == KeywordCount(text, POSITIVE_WORDS)
        negCount == KeywordCount(text, NEGATIVE_WORDS)
    IN  /\ (sentimentResult.score = "Positive") <=> (posCount > negCount)
        /\ (sentimentResult.score = "Negative") <=> (posCount < negCount)
        /\ (sentimentResult.score = "Neutral") <=> (posCount = negCount)

\* a mixed text: an upper-case negative keyword outweighed by positive ones
MixedSentimentClassified ==
  /\ sentimentResult # Null
  /\ KeywordCount(text, NEGATIVE_WORDS) >= 1
  /\ KeywordCount(text, POSITIVE_WORDS) > KeywordCount(text, NEGATIVE_WORDS)
  /\ sentimentResult.score = "Positive"

\* C9: the confidence lies in [0.5, 0.99]; it is 0.5 when no keyword
\* matched, and min(0.5 + 0.5 * |posCount - negCount| / (posCount +
\* negCount), 0.99) otherwise: above 0.5 when the counts differ, and 0.99
\* when all matched keywords have one polarity.
ConfidenceFollowsKeywordCounts ==
  sentimentResult # Null =>
    LET posCount == KeywordCount(text, POSITIVE_WORDS)
        negCount == KeywordCount(text, NEGATIVE_WORDS)
        total    == posCount + negCount
        diff     == IF posCount > negCount THEN posCount - negCount
                                           ELSE negCount - posCount
        c        == sentimentResult.confidence
    IN  /\ c.den > 0
        /\ 2 * c.num >= c.den
        /\ 100 * c.num <= 99 * c.den
        /\ total = 0 => 2 * c.num = c.den
        /\ total > 0 =>
             IF 100 * (total + diff) <= 99 * 2 * total
               THEN c.num * 2 * total = (total + diff) * c.den
               ELSE 100 * c.num = 99 * c.den
        /\ (total > 0 /\ posCount # negCount) => 2 * c.num > c.den
        /\ (total > 0 /\ (posCount = 0 \/ negCount = 0)) =>
             100 * c.num = 99 * c.den

\* keywords of both polarities in unequal numbers: a confidence strictly
\* between 0.5 and 0.99
UnevenMixedSentimentClassified ==
  /\ sentimentResult # Null
  /\ KeywordCount(text, POSITIVE_WORDS) >= 1
  /\ KeywordCount(text, NEGATIVE_WORDS) > KeywordCount(text, POSITIVE_WORDS)
  /\ 2 * sentimentResult.confidence.num > sentimentResult.confidence.den
  /\ 100 * sentimentResult.confidence.num < 99 * sentimentResult.confidence.den

(***************************************************************************)
(* Properties of App, checked under Spec and FairSpec.                     *)
(***************************************************************************)
\* C11: whenever sentimentStatus is COMPLETED, sentimentResult is the
\* verdict of the current text: a change of the text invalidates every
\* verdict of an earlier text, also one that was still being computed.
CompletedVerdictIsOfCurrentText ==
  sentimentStatus = "COMPLETED" => sentimentResult = SentimentOf(text)

\* C12: at most one call of analyzeSentimentLocal is outstanding at any
\* time.
AtMostOneCallOutstanding == Len(pendingCalls) <= 1

\* C13: the status follows Idle -> Analyzing -> Completed or Error: a step
\* that sets COMPLETED or ERROR starts in ANALYZING, and ANALYZING is left
\* only towards COMPLETED or ERROR.
StatusFollowsStateMachine ==
  [][/\ (sentimentStatus' # sentimentStatus
           /\ sentimentStatus' \in {"COMPLETED", "ERROR"})
          => sentimentStatus = "ANALYZING"
     /\ (sentimentStatus' # sentimentStatus /\ sentimentStatus = "ANALYZING")
          => sentimentStatus' \in {"COMPLETED", "ERROR"}]_vars

\* C14: sentimentStatus = COMPLETED implies sentimentResult is not null.
CompletedHasResult ==
  sentimentStatus = "COMPLETED" => sentimentResult # Null

\* a verdict arrived and is shown while a later call is still pending
CompletedWhileCallPending ==
  /\ sentimentStatus = "COMPLETED"
  /\ sentimentResult # Null
  /\ pendingCalls # <<>>

\* C15: every started call resumes its caller exactly once; so, the timers
\* being fair, ANALYZING is always followed by COMPLETED or ERROR; and text
\* edits, clear, copy and export stay enabled while a call is pending.
EveryCallResumesOnce ==
  /\ [][pendingCalls' # pendingCalls =>
          \/ pendingCalls' = Append(pendingCalls, text)
          \/ /\ pendingCalls # <<>>
             /\ pendingCalls' = Tail(pendingCalls)
             /\ sentimentStatus' \in {"COMPLETED", "ERROR"}]_vars
  /\ (sentimentStatus = "ANALYZING")
       ~> (sentimentStatus \in {"COMPLETED", "ERROR"})
  /\ [](pendingCalls # <<>> =>
          /\ ENABLED (\E value \in AppTexts : handleTextChange(value))
          /\ text # <<>> => ENABLED handleClear(TRUE)
          /\ (text # <<>> /\ pendingCopies < MaxCopies) => ENABLED handleCopy
          /\ stats.wordCount # 0 => ENABLED handleExport)

\* the verdict of a call arrived after the text it was started with had
\* been replaced
CallResumedAfterTextChange ==
  /\ sentimentStatus = "COMPLETED"
  /\ pendingCalls = <<>>
  /\ sentimentResult # Null
  /\ sentimentResult # SentimentOf(text)
  /\ text # <<>>

\* the positions of s inside a maximal run of '.', '!' or '?' that is
\* followed by a whitespace character or by the end of s
SentenceEndPositions(s) ==
  {k \in 1..Len(s) :
     /\ s[k] \in SentencePunctuation
     /\ \E j \in k..Len(s) :
          /\ \A m \in k..j : s[m] \in SentencePunctuation
          /\ j = Len(s) \/ s[j + 1] \in WhiteSpace}

\* the first non-whitespace position of each segment left between the
\* sentence ends
SentenceStarts(s) ==
  LET ends    == SentenceEndPositions(s)
      inked   == {k \in 1..Len(s) : k \notin ends /\ s[k] \notin WhiteSpace}
  IN  {k \in inked :
         \A m \in inked : m < k => \E c \in ends : m < c /\ c < k}

\* C16: sentenceCount is the number of segments with a non-whitespace
\* character left when the text is cut at every run of '.', '!' or '?'
\* followed by whitespace or the end of the text; a run followed by any
\* other character cuts nothing, and a terminal run adds no sentence.
SentenceCountIsNumberOfNonBlankSegments ==
  stats # Null => stats.sentenceCount = Cardinality(SentenceStarts(text))

\* a text with a punctuation mark between two word characters, as in a
\* decimal number, and a run of two marks at its end
DecimalAndTerminalPunctuationAnalyzed ==
  /\ stats # Null
  /\ stats.sentenceCount = 1
  /\ Len(text) >= 2
  /\ text[Len(text)] \in SentencePunctuation
  /\ text[Len(text) - 1] \in SentencePunctuation
  /\ \E i \in 2..(Len(text) - 1) :
       /\ text[i - 1] \in WordChars
       /\ text[i] \in SentencePunctuation
       /\ text[i + 1] \in WordChars

\* C17: the counts of analyzeText agree with one another: a word implies a
\* sentence and a paragraph, a sentence implies a paragraph, there is a
\* paragraph exactly when there is a non-whitespace character, and
\* charCountNoSpaces is at most charCount, equal to it exactly when the text
\* has no whitespace character.
CountsAreConsistent ==
  stats # Null =>
    /\ stats.wordCount >= 1 =>
         stats.sentenceCount >= 1 /\ stats.paragraphCount >= 1
    /\ stats.sentenceCount >= 1 => stats.paragraphCount >= 1
    /\ stats.paragraphCount >= 1 <=> stats.charCountNoSpaces >= 1
    /\ stats.charCountNoSpaces <= stats.charCount
    /\ stats.charCountNoSpaces = stats.charCount
         <=> \A i \in 1..Len(text) : text[i] \notin WhiteSpace

\* a text of two paragraphs and two sentences, with fewer words than
\* sentences and a blank line
TwoParagraphsAnalyzed ==
  /\ stats # Null
  /\ stats.paragraphCount >= 2
  /\ stats.sentenceCount >= 2
  /\ stats.wordCount < stats.sentenceCount
  /\ stats.charCountNoSpaces < stats.charCount

====
